---- MODULE Spec2Model ----
(***************************************************************************)
(* Invoice extraction core of the purchasing evaluation system             *)
(* (src/extractors.py, src/app.py).                                        *)
(*                                                                         *)
(* Text is modelled at token level: a text is a sequence of tokens, where  *)
(* a token is the smallest piece of text one of the program's regular      *)
(* expressions looks at (a number with the characters that follow it, a    *)
(* slash date, a header "<year>年<month>月", a keyword, a line break).      *)
(*                                                                         *)
(* A Python float holding a decimal quantity is modelled by the integer    *)
(* number of ten-thousandths (Scale); float arithmetic on it (float(),     *)
(* round(q, 2), int(q * 12000)) is computed as IEEE-754 binary64 computes  *)
(* it, see FloatErr.                                                       *)
(***************************************************************************)
EXTENDS Integers, Sequences, FiniteSets, Bags, TLC

VARIABLES
    \* both grammars
    text,            \* the argument of the grammar
    invoice_year,    \* digits of the header year
    invoice_month,   \* digits of the header month, zero filled
    lineNo,          \* index of the next line of "for line in lines"
    records,         \* the list being built / returned
    \* parse_hirayama_invoice
    pcA,             \* position in the function
    seen_qtys,       \* set of rounded quantities already emitted
    potential_qtys,  \* Strategy 1 candidate pool
    current_date,    \* running date of Strategy 2
    nS2,             \* len(records) when Strategy 2 finished
    \* parse_french_fnb_invoice
    pcB,             \* position in the function
    nMatched,        \* lines on which re.search found a row pattern
    nPrimary,        \* len(records) when the primary strategy finished
    scans,           \* the fallback keyword scans that ran
    \* main: the batch of uploaded invoices
    nFiles,          \* len(invoice_files), the uploaded files
    inv,             \* the name of the file the loop is at, "" until read
    mode,            \* "save" (lines 163-170) or "preview" (lines 236-244)
    idx,             \* index of the file the loop is at
    calls,           \* indices passed to extract_invoice_data, in order
    warnings,        \* st.warning calls: [idx, name, msg]
    saved_invoices,  \* the running total of the save loop
    all_invoices,    \* the list the preview loop extends
    \* extract_invoice_data: one call
    pcX,             \* position in main / extract_invoice_data
    PDFPLUMBER_AVAILABLE,
    OCR_AVAILABLE,
    nPages,          \* pages of the document of this call
    tmp_created,     \* this call created its temporary file
    tmp_exists,      \* that file is on disk
    text_content,    \* the recovered text
    directText,      \* the part of it that text-layer extraction produced
    pageNo,          \* next page of the running page loop
    rasterized,      \* convert_from_path was called
    ocrCalls,        \* pages passed to image_to_string, in order
    ocrTexts,        \* what it returned for them
    ocrFault,        \* rasterization or recognition raised
    grammar,         \* the grammar the call handed the text to
    classified,      \* the if / elif chain of the classifier was evaluated
    fault,           \* the exception the call's outer handler caught
    invoice_data     \* the value the call returned

shared == <<text, invoice_year, invoice_month, lineNo, records>>
onlyA  == <<pcA, seen_qtys, potential_qtys, current_date, nS2>>
onlyB  == <<pcB, nMatched, nPrimary, scans>>
batch  == <<nFiles, inv, mode, idx, calls, warnings, saved_invoices,
            all_invoices>>
avail  == <<PDFPLUMBER_AVAILABLE, OCR_AVAILABLE>>
call   == <<nPages, tmp_created, tmp_exists, text_content, directText, pageNo,
            rasterized, ocrCalls, ocrTexts, ocrFault, grammar, classified,
            fault, invoice_data>>
varsX  == <<batch, avail, call, pcX>>
vars   == <<shared, onlyA, onlyB, varsX>>

(***************************************************************************)
(* Bounds of the model                                                     *)
(***************************************************************************)
MaxLen == 4          \* tokens in the free part of a Grammar A text
MaxLinesB == 2       \* lines of a Grammar B text
MaxFiles == 2        \* invoice files of one upload
MaxPages == 2        \* pages of one document

(***************************************************************************)
(* Numbers                                                                 *)
(***************************************************************************)
Scale == 100 * 100   \* one unit of a modelled float is 1/10000

RECURSIVE Pow10(_)
Pow10(k) == IF k = 0 THEN 1 ELSE 10 * Pow10(k - 1)

RECURSIVE Pow2(_)
Pow2(k) == IF k = 0 THEN 1 ELSE 2 * Pow2(k - 1)

\* 2^k mod m by squaring, for m * m within 31 bits
RECURSIVE Pow2Mod(_, _)
Pow2Mod(k, m) ==
    IF k = 0 THEN 1 % m
    ELSE LET h == Pow2Mod(k \div 2, m)
         IN  ((IF k % 2 = 1 THEN 2 ELSE 1) * ((h * h) % m)) % m

\* value of a digit string, int("0123")
RECURSIVE DigitsVal(_)
DigitsVal(ds) ==
    IF ds = <<>> THEN 0
    ELSE 10 * DigitsVal(SubSeq(ds, 1, Len(ds) - 1)) + ds[Len(ds)]

\* float(num_str) for num_str = "<ip>[.<frac>]", in units of 1/Scale
FloatOf(tok) ==
    tok.ip * Scale + DigitsVal(tok.frac) * Pow10(4 - Len(tok.frac))

\* binary64 exponent of the unit in the last place of q in [4, 16): 2^-FloatUlp
FloatUlp(n) == IF n < 8 * Scale THEN 50 ELSE 49

\* The double nearest to n/Scale differs from n/Scale by FloatErr(n)/Scale
\* units in the last place: 0 when n/Scale is a double, negative when the
\* double is below the decimal, positive when it is above.
FloatErr(n) ==
    LET r == (n * Pow2Mod(FloatUlp(n), Scale)) % Scale
    IN  IF 2 * r < Scale THEN 0 - r ELSE Scale - r

\* round(qty, 2): Python rounds the exact value of the double, half to even
Round2(n) ==
    LET c   == n \div 100
        rem == n % 100
        up  == IF rem # 50 THEN rem > 50
               ELSE IF FloatErr(n) = 0 THEN c % 2 = 1
               ELSE FloatErr(n) > 0
    IN  100 * (IF up THEN c + 1 ELSE c)

UnitPrice == 12000

\* int(qty * 12000): the product of two doubles rounded to a double, truncated
IntAmount(n) ==
    LET num == n * UnitPrice
        M   == num \div Scale
        u   == IF M < 65536 THEN 37 ELSE 36
    IN  IF num % Scale # 0 THEN M
        ELSE IF FloatErr(n) < 0
                /\ 2 * UnitPrice * (0 - FloatErr(n)) > Scale * Pow2(FloatUlp(n) - u)
             THEN M - 1
        ELSE M

(***************************************************************************)
(* Tokens                                                                  *)
(***************************************************************************)
\* a line break
NL == [kind |-> "nl"]
\* "<ip>", "<ip>." or "<ip>.<frac>" followed (after optional blanks) by sfx
Num(ip, frac, pt, sfx) ==
    [kind |-> "num", ip |-> ip, frac |-> frac, pt |-> pt, sfx |-> sfx]
\* "<y>/<m>/<d>", y of two or four digits
Date(y, m, d) == [kind |-> "date", y |-> y, m |-> m, d |-> d]
\* "<y>年<m>月", with blanks between 年 and <m> when sp
Hdr(y, m, sp) == [kind |-> "hdr", y |-> y, m |-> m, sp |-> sp]
\* any other piece of text
Word(s) == [kind |-> "word", s |-> s, ds |-> <<>>]

\* a formatted date string "<y><sep><m><sep><d>"
DateStr(y, m, d, sep) == [y |-> y, m |-> m, d |-> d, sep |-> sep]

\* str.zfill(2) on a digit string
ZFill2(ds) == IF Len(ds) < 2 THEN <<0>> \o ds ELSE ds

\* str.lower() on the unit spellings of the model
Lower(s) ==
    CASE s = "KG" -> "kg"
      [] s = "Kg" -> "kg"
      [] s = "kG" -> "kg"
      [] s = "KE" -> "ke"
      [] s = "Ke" -> "ke"
      [] s = "kE" -> "ke"
      [] OTHER    -> s

\* text.split('\n'), computed by halves: the last line of the first half and
\* the first line of the second half are one line
RECURSIVE Split(_)
Split(t) ==
    IF Len(t) = 0 THEN << <<>> >>
    ELSE IF Len(t) = 1
    THEN IF t[1].kind = "nl" THEN << <<>>, <<>> >> ELSE << <<t[1]>> >>
    ELSE LET h == Len(t) \div 2
             a == Split(SubSeq(t, 1, h))
             b == Split(SubSeq(t, h + 1, Len(t)))
         IN  SubSeq(a, 1, Len(a) - 1) \o << a[Len(a)] \o b[1] >> \o Tail(b)

(***************************************************************************)
(* Vendor Grammar A: parse_hirayama_invoice                                *)
(***************************************************************************)
VendorA == "Meat Shop Hirayama"
ItemA   == "Wagyu Tenderloin"
RangeMin == 4 * Scale     \* 4.0
RangeMax == 10 * Scale    \* 10.0
MinRecords == 10

\* re.search(r'(\d{4})年(\d{1,2})月', text): the first header token, if any
HeaderMatchA(t) == SelectSeq(t, LAMBDA k : k.kind = "hdr" /\ ~k.sp)

InvoiceYearA(t) ==
    IF HeaderMatchA(t) # <<>> THEN HeaderMatchA(t)[1].y ELSE <<2, 0, 2, 5>>
InvoiceMonthA(t) ==
    IF HeaderMatchA(t) # <<>> THEN ZFill2(HeaderMatchA(t)[1].m) ELSE <<1, 0>>

\* the range with its upper bound excluded
InRangeExclusive(n) == RangeMin <= n /\ n < RangeMax

\* 4.0 <= num <= 10.0
InRange(n) == RangeMin <= n /\ n <= RangeMax

\* the dict appended to records
LineItemA(qty, date) ==
    [vendor |-> VendorA, date |-> date, item_name |-> ItemA, quantity |-> qty,
     unit |-> "kg", unit_price |-> UnitPrice, amount |-> IntAmount(qty)]

\* Strategy 1: re.findall(r'(\d+\.?\d*)', text), keeping the tokens in range
\* that hold a '.'
RECURSIVE MapFloat(_)
MapFloat(ts) ==
    IF ts = <<>> THEN <<>> ELSE <<FloatOf(Head(ts))>> \o MapFloat(Tail(ts))

PotentialQtys(t) ==
    MapFloat(SelectSeq(t, LAMBDA k :
        k.kind = "num" /\ InRange(FloatOf(k)) /\ k.pt))

\* re.search(r'(\d{2})/(\d{2})/(\d{2})', line): the first slash date of the
\* line; of a four-digit year the last two digits match
LineDate(line, cur) ==
    LET ds == SelectSeq(line, LAMBDA k : k.kind = "date")
    IN  IF ds = <<>> THEN cur
        ELSE DateStr(<<2, 0>> \o SubSeq(ds[1].y, Len(ds[1].y) - 1, Len(ds[1].y)),
                     ds[1].m, ds[1].d, "-")

\* re.findall(r'(\d+\.\d+)\s*(?:kg|ke|Kg)', line, re.IGNORECASE)
QtyMatches(line) ==
    MapFloat(SelectSeq(line, LAMBDA k :
        k.kind = "num" /\ k.pt /\ k.frac # <<>> /\ Lower(k.sfx) \in {"kg", "ke"}))

\* the body of the loop with the last occurrence of a key kept: a quantity
\* whose key was seen takes the place of the LineItem that has the key
RECURSIVE EmitLineKeepLast(_, _, _, _)
EmitLineKeepLast(qs, seen, recs, date) ==
    IF qs = <<>> THEN [seen |-> seen, recs |-> recs]
    ELSE LET qty     == Head(qs)
             qty_key == Round2(qty)
         IN  IF InRange(qty) /\ qty_key \notin seen
             THEN EmitLineKeepLast(Tail(qs), seen \cup {qty_key},
                                   Append(recs, LineItemA(qty, date)), date)
             ELSE IF InRange(qty)
             THEN EmitLineKeepLast(Tail(qs), seen,
                      [i \in 1..Len(recs) |->
                          IF Round2(recs[i].quantity) = qty_key
                          THEN LineItemA(qty, date) ELSE recs[i]], date)
             ELSE EmitLineKeepLast(Tail(qs), seen, recs, date)

\* the body of "for qty_str in qty_matches"
RECURSIVE EmitLine(_, _, _, _)
EmitLine(qs, seen, recs, date) ==
    IF qs = <<>> THEN [seen |-> seen, recs |-> recs]
    ELSE LET qty     == Head(qs)
             qty_key == Round2(qty)
         IN  IF InRange(qty) /\ qty_key \notin seen
             THEN EmitLine(Tail(qs), seen \cup {qty_key},
                           Append(recs, LineItemA(qty, date)), date)
             ELSE EmitLine(Tail(qs), seen, recs, date)

\* Strategy 3: the body of "for qty in potential_qtys"
RECURSIVE Backfill(_, _, _, _)
Backfill(qs, seen, recs, date) ==
    IF qs = <<>> THEN [seen |-> seen, recs |-> recs]
    ELSE LET qty     == Head(qs)
             qty_key == Round2(qty)
         IN  IF qty_key \notin seen
             THEN Backfill(Tail(qs), seen \cup {qty_key},
                           Append(recs, LineItemA(qty, date)), date)
             ELSE Backfill(Tail(qs), seen, recs, date)

\* records.sort(key=lambda x: x['quantity']): a stable sort
RECURSIVE InsertByQty(_, _)
InsertByQty(r, sorted) ==
    IF sorted = <<>> THEN <<r>>
    ELSE IF r.quantity < Head(sorted).quantity THEN <<r>> \o sorted
    ELSE <<Head(sorted)>> \o InsertByQty(r, Tail(sorted))

RECURSIVE SortByQty(_)
SortByQty(recs) ==
    IF recs = <<>> THEN <<>>
    ELSE InsertByQty(recs[Len(recs)], SortByQty(SubSeq(recs, 1, Len(recs) - 1)))

\* the whole of Strategy 2, "for line in lines"
RECURSIVE Strategy2(_, _, _, _)
Strategy2(ls, seen, recs, cur) ==
    IF ls = <<>> THEN [seen |-> seen, recs |-> recs]
    ELSE LET date == LineDate(Head(ls), cur)
             out  == EmitLine(QtyMatches(Head(ls)), seen, recs, date)
         IN  Strategy2(Tail(ls), out.seen, out.recs, date)

\* Strategy 3 with a dedup set of its own
Strategy3OwnSeen(pool, seen, recs, date) ==
    IF Len(recs) < MinRecords THEN Backfill(pool, {}, recs, date)
    ELSE [seen |-> seen, recs |-> recs]

\* Strategy 3 without the threshold
Strategy3Always(pool, seen, recs, date) == Backfill(pool, seen, recs, date)

\* Strategy 3, "if len(records) < 10"
Strategy3(pool, seen, recs, date) ==
    IF Len(recs) < MinRecords THEN Backfill(pool, seen, recs, date)
    ELSE [seen |-> seen, recs |-> recs]

\* the value parse_hirayama_invoice(text) returns
parse_hirayama_invoice(t) ==
    LET first == DateStr(InvoiceYearA(t), InvoiceMonthA(t), <<0, 1>>, "-")
        s2    == Strategy2(Split(t), {}, <<>>, first)
        s3    == Strategy3(PotentialQtys(t), s2.seen, s2.recs, first)
    IN  SortByQty(s3.recs)

(***************************************************************************)
(* Grammar A step by step                                                  *)
(***************************************************************************)
\* the tokens Grammar A texts of the model are made of
AlphabetA ==
    { NL,
      Date(<<2, 5>>, <<1, 0>>, <<0, 9>>),      \* 25/10/09
      Hdr(<<2, 0, 2, 4>>, <<3>>, FALSE),       \* 2024年3月
      Num(4, <<0>>, TRUE, "kg"),               \* 4.0 kg
      Num(4, <<0, 0, 4>>, TRUE, "KG"),         \* 4.004 KG
      Num(4, <<0, 0, 4, 9>>, TRUE, "ke"),      \* 4.0049 ke
      Num(10, <<0>>, TRUE, ""),                \* 10.0
      Num(10, <<0, 1>>, TRUE, "kg") }          \* 10.01 kg

\* one line of k deliveries, 5.0 kg, 5.1 kg, ...
ManyDeliveries(k) ==
    IF k = 0 THEN <<>>
    ELSE [i \in 1..k |-> Num(5, <<i - 1>>, TRUE, "kg")] \o <<NL>>

\* one delivery short of the threshold, then two weights whose unit was lost:
\* 5.0 kg ... 5.8 kg / 4.5 10.0
NearThreshold ==
    ManyDeliveries(MinRecords - 1)
        \o <<Num(4, <<5>>, TRUE, ""), Num(10, <<0>>, TRUE, "")>>

\* a weight whose unit was lost, then weights with a unit that round to the
\* same key: 4.0 / 25/10/09 4.004 KG 4.0 kg and 10.0 / 25/10/09 9.996 kg
SharedKeyTexts ==
    { <<Num(4, <<0>>, TRUE, ""), NL, Date(<<2, 5>>, <<1, 0>>, <<0, 9>>),
        Num(4, <<0, 0, 4>>, TRUE, "KG"), Num(4, <<0>>, TRUE, "kg")>>,
      <<Num(10, <<0>>, TRUE, ""), NL, Date(<<2, 5>>, <<1, 0>>, <<0, 9>>),
        Num(9, <<9, 9, 6>>, TRUE, "kg")>> }

\* free texts of up to MaxLen tokens; ten deliveries followed by a free text
\* one token shorter; NearThreshold; SharedKeyTexts
TextsA ==
    UNION { [1..n -> AlphabetA] : n \in 0..MaxLen }
    \cup { ManyDeliveries(MinRecords) \o t :
             t \in UNION { [1..n -> AlphabetA] : n \in 0..(MaxLen - 1) } }
    \cup {NearThreshold}
    \cup SharedKeyTexts

\* a grammar that is not running
IdleA ==
    /\ seen_qtys = {}
    /\ potential_qtys = <<>>
    /\ current_date = DateStr(<<>>, <<>>, <<>>, "-")
    /\ nS2 = 0

IdleB ==
    /\ nMatched = 0
    /\ nPrimary = 0
    /\ scans = {}

IdleBatch ==
    /\ nFiles = 0 /\ inv = "" /\ mode = "save" /\ idx = 0 /\ calls = <<>>
    /\ warnings = <<>> /\ saved_invoices = 0 /\ all_invoices = <<>>

IdleCall ==
    /\ pcX = "idle"
    /\ PDFPLUMBER_AVAILABLE = TRUE /\ OCR_AVAILABLE = TRUE
    /\ nPages = 0 /\ tmp_created = FALSE /\ tmp_exists = FALSE
    /\ text_content = <<>> /\ directText = <<>> /\ pageNo = 0
    /\ rasterized = FALSE /\ ocrCalls = <<>> /\ ocrTexts = <<>>
    /\ ocrFault = FALSE /\ grammar = "none" /\ fault = "none"
    /\ classified = FALSE
    /\ invoice_data = <<>>

IdleX == IdleBatch /\ IdleCall

IdleShared ==
    /\ invoice_year = <<>>
    /\ invoice_month = <<>>
    /\ lineNo = 0
    /\ records = <<>>

InitA ==
    /\ text \in TextsA
    /\ pcA = "start"
    /\ pcB = "idle"
    /\ IdleShared /\ IdleA /\ IdleB /\ IdleX

\* the start of the function with a dedup set that outlives the call
A_HeaderKeepSeen ==
    /\ pcA = "start"
    /\ records' = <<>>
    /\ nS2' = 0
    /\ invoice_year' = InvoiceYearA(text)
    /\ invoice_month' = InvoiceMonthA(text)
    /\ potential_qtys' = PotentialQtys(text)
    /\ current_date' = DateStr(InvoiceYearA(text), InvoiceMonthA(text), <<0, 1>>, "-")
    /\ lineNo' = 1
    /\ pcA' = "lines"
    /\ UNCHANGED <<text, seen_qtys, onlyB, varsX>>

\* lines 209-236: the empty list and the empty dedup set, header, Strategy 1,
\* split into lines
A_Header ==
    /\ pcA = "start"
    /\ records' = <<>>
    /\ seen_qtys' = {}
    /\ nS2' = 0
    /\ invoice_year' = InvoiceYearA(text)
    /\ invoice_month' = InvoiceMonthA(text)
    /\ potential_qtys' = PotentialQtys(text)
    /\ current_date' = DateStr(InvoiceYearA(text), InvoiceMonthA(text), <<0, 1>>, "-")
    /\ lineNo' = 1
    /\ pcA' = "lines"
    /\ UNCHANGED <<text, onlyB, varsX>>

\* one iteration that takes the date of the line after its quantities
A_LineDateAfter ==
    /\ pcA = "lines"
    /\ lineNo <= Len(Split(text))
    /\ LET line == Split(text)[lineNo]
           out  == EmitLine(QtyMatches(line), seen_qtys, records, current_date)
       IN  /\ current_date' = LineDate(line, current_date)
           /\ seen_qtys' = out.seen
           /\ records' = out.recs
    /\ lineNo' = lineNo + 1
    /\ UNCHANGED <<text, pcA, invoice_year, invoice_month, potential_qtys, nS2,
                   onlyB, varsX>>

\* lines 238-269: one iteration of "for line in lines"
A_Line ==
    /\ pcA = "lines"
    /\ lineNo <= Len(Split(text))
    /\ LET line == Split(text)[lineNo]
           date == LineDate(line, current_date)
           out  == EmitLine(QtyMatches(line), seen_qtys, records, date)
       IN  /\ current_date' = date
           /\ seen_qtys' = out.seen
           /\ records' = out.recs
    /\ lineNo' = lineNo + 1
    /\ UNCHANGED <<text, pcA, invoice_year, invoice_month, potential_qtys, nS2,
                   onlyB, varsX>>

\* lines 271-287: Strategy 3
A_Strategy3 ==
    /\ pcA = "lines"
    /\ lineNo > Len(Split(text))
    /\ LET out == Strategy3(potential_qtys, seen_qtys, records,
                            DateStr(invoice_year, invoice_month, <<0, 1>>, "-"))
       IN  /\ seen_qtys' = out.seen
           /\ records' = out.recs
    /\ nS2' = Len(records)
    /\ pcA' = "sort"
    /\ UNCHANGED <<text, invoice_year, invoice_month, potential_qtys, lineNo,
                   current_date, onlyB, varsX>>

\* the return without the sort
A_SortSkipped ==
    /\ pcA = "sort"
    /\ pcA' = "done"
    /\ UNCHANGED <<text, records, invoice_year, invoice_month, seen_qtys,
                   potential_qtys, lineNo, current_date, nS2, onlyB, varsX>>

\* lines 289-300: sort and return
A_Sort ==
    /\ pcA = "sort"
    /\ records' = SortByQty(records)
    /\ pcA' = "done"
    /\ UNCHANGED <<text, invoice_year, invoice_month, seen_qtys, potential_qtys,
                   lineNo, current_date, nS2, onlyB, varsX>>

NextA == A_Header \/ A_Line \/ A_Strategy3 \/ A_Sort

SpecA == InitA /\ [][NextA]_vars

\* the step-by-step run returns what the function returns
StepwiseIsFunction == pcA = "done" => records = parse_hirayama_invoice(text)

(***************************************************************************)
(* Vendor Grammar B: parse_french_fnb_invoice                              *)
(***************************************************************************)
VendorB == "French F&B Japan"
ItemCaviar == "KAVIARI caviar crystal 100g"
ItemButter == "Palette butter"

\* 請求一括, the literal that ends a row before its amount
Marker == [kind |-> "word", s |-> "SEIKYU-IKKATSU", ds |-> <<>>]
\* a piece of text that begins with the digit run ds, e.g. "100g"
WordNum(s, ds) == [kind |-> "word", s |-> s, ds |-> ds]
\* "[\]<s>": s made of the characters of [-\d,], after a backslash when bs
Amt(bs, s) == [kind |-> "amt", bs |-> bs, s |-> s]

\* keyword families of the fallback scans; Latin keywords in the spellings
\* re.IGNORECASE accepts, Japanese ones transliterated
CaviarWords == {"KAVIARI", "kaviari", "KYABIA", "KYAVIA"}
ButterWords == {"PARETTO", "PARETTO-HANKAKU", "BUURU", "BARATTO"}

DigitChars == <<"0", "1", "2", "3", "4", "5", "6", "7", "8", "9">>
IsDigit(c) == \E d \in 1..10 : DigitChars[d] = c
DigitOf(c) == (CHOOSE d \in 1..10 : DigitChars[d] = c) - 1

\* the characters of a digit sequence
RECURSIVE Chars(_)
Chars(ds) ==
    IF ds = <<>> THEN <<>> ELSE <<DigitChars[Head(ds) + 1]>> \o Chars(Tail(ds))

\* str(n) for a natural number
RECURSIVE NatChars(_)
NatChars(n) ==
    IF n < 10 THEN <<DigitChars[n + 1]>>
    ELSE NatChars(n \div 10) \o <<DigitChars[(n % 10) + 1]>>

\* s.replace(ch, '')
Remove(s, ch) == SelectSeq(s, LAMBDA c : c # ch)

\* int(s) succeeds: an optional sign and at least one digit
IsInt(s) ==
    LET body == IF s # <<>> /\ s[1] \in {"-", "+"} THEN Tail(s) ELSE s
    IN  body # <<>> /\ \A i \in 1..Len(body) : IsDigit(body[i])

RECURSIVE CharsVal(_)
CharsVal(s) ==
    IF s = <<>> THEN 0
    ELSE 10 * CharsVal(SubSeq(s, 1, Len(s) - 1)) + DigitOf(s[Len(s)])

\* int(s)
IntOf(s) ==
    IF s[1] = "-" THEN 0 - CharsVal(Tail(s))
    ELSE IF s[1] = "+" THEN CharsVal(Tail(s))
    ELSE CharsVal(s)

\* re.search(r'(\d{4})年\s*(\d{1,2})月', text)
HeaderMatchB(t) == SelectSeq(t, LAMBDA k : k.kind = "hdr")

InvoiceYearB(t) ==
    IF HeaderMatchB(t) # <<>> THEN HeaderMatchB(t)[1].y ELSE <<2, 0, 2, 5>>
InvoiceMonthB(t) ==
    IF HeaderMatchB(t) # <<>> THEN ZFill2(HeaderMatchB(t)[1].m) ELSE <<0, 1>>

\* a character of [\d,]
InRun(c) == IsDigit(c) \/ c = ","

\* the longest prefix of s inside [\d,]
RECURSIVE TakeRun(_)
TakeRun(s) ==
    IF s = <<>> \/ ~InRun(Head(s)) THEN <<>>
    ELSE <<Head(s)>> \o TakeRun(Tail(s))

\* s without its longest prefix outside [\d,]
RECURSIVE SkipToRun(_)
SkipToRun(s) ==
    IF s = <<>> \/ InRun(Head(s)) THEN s ELSE SkipToRun(Tail(s))

\* what \\?([-\d,]+) captures at the start of a token
AmtGroup(k) ==
    CASE k.kind = "amt"  -> k.s
      [] k.kind = "num"  -> NatChars(k.ip)
      [] k.kind = "date" -> Chars(k.y)
      [] k.kind = "hdr"  -> Chars(k.y)
      [] k.kind = "word" -> Chars(k.ds)
      [] OTHER           -> <<>>

\* what \\?([\d,]+) captures first inside a token: its first run of digits
\* and commas
FirstRun(k) ==
    CASE k.kind = "amt"  -> TakeRun(SkipToRun(k.s))
      [] k.kind = "num"  -> NatChars(k.ip)
      [] k.kind = "date" -> Chars(k.y)
      [] k.kind = "hdr"  -> Chars(k.y)
      [] k.kind = "word" -> Chars(k.ds)
      [] OTHER           -> <<>>

\* the token ends with a digit: (\d+) can match its end
EndsWithDigit(k) ==
    CASE k.kind = "num"  -> k.sfx = "" /\ (k.pt => k.frac # <<>>)
      [] k.kind = "date" -> TRUE
      [] k.kind = "amt"  -> IsDigit(k.s[Len(k.s)])
      [] OTHER           -> FALSE

\* \d{4}/\d{2}/\d{2}
IsDate4(k) == k.kind = "date" /\ Len(k.y) = 4 /\ Len(k.m) = 2 /\ Len(k.d) = 2
\* \d+ between blanks
IsAllDigits(k) == k.kind = "num" /\ ~k.pt /\ k.sfx = ""

\* \s+(\d{4}/\d{2}/\d{2})\s+請求一括\s*\\?([-\d,]+) at token j of the line
RowEndAt(line, j) ==
    /\ j + 2 <= Len(line)
    /\ IsDate4(line[j])
    /\ line[j + 1] = Marker
    /\ AmtGroup(line[j + 2]) # <<>>

SetMin(S) == CHOOSE x \in S : \A y \in S : x <= y

NoMatch == [matched |-> FALSE]

\* re.search(item_patterns[0], line): the fuller pattern, with a row number
\* and a slip number; the leftmost match, its description as short as can be
MatchFull(line) ==
    LET ends(i) == { j \in (i + 4)..Len(line) : RowEndAt(line, j) }
        starts  == { i \in 1..Len(line) :
                       /\ i + 2 <= Len(line)
                       /\ EndsWithDigit(line[i])
                       /\ IsDate4(line[i + 1])
                       /\ IsAllDigits(line[i + 2])
                       /\ ends(i) # {} }
    IN  IF starts = {} THEN NoMatch
        ELSE LET i == SetMin(starts)
                 j == SetMin(ends(i))
             IN  [matched |-> TRUE, date |-> line[i + 1],
                  item |-> SubSeq(line, i + 3, j - 1),
                  amount |-> AmtGroup(line[j + 2])]

\* re.search(item_patterns[1], line): the looser pattern
MatchLoose(line) ==
    LET ends(i) == { j \in (i + 3)..Len(line) : RowEndAt(line, j) }
        starts  == { i \in 1..Len(line) :
                       /\ i + 1 <= Len(line)
                       /\ IsDate4(line[i])
                       /\ IsAllDigits(line[i + 1])
                       /\ ends(i) # {} }
    IN  IF starts = {} THEN NoMatch
        ELSE LET i == SetMin(starts)
                 j == SetMin(ends(i))
             IN  [matched |-> TRUE, date |-> line[i],
                  item |-> SubSeq(line, i + 2, j - 1),
                  amount |-> AmtGroup(line[j + 2])]

\* the amount with its thousands separators left in
CleanAmountKeepCommas(s) == Remove(s, "\\")

\* groups[..].replace(',', '').replace('\\', '')
CleanAmount(s) == Remove(Remove(s, ","), "\\")

\* the dict the primary strategy appends
LineItemB(m) ==
    [vendor |-> VendorB, date |-> DateStr(m.date.y, m.date.m, m.date.d, "/"),
     item_name |-> m.item, quantity |-> 1 * Scale, unit |-> "pc",
     unit_price |-> IntOf(CleanAmount(m.amount)),
     amount |-> IntOf(CleanAmount(m.amount))]

\* a match whose amount is an integer above zero
UsablePositive(m) ==
    /\ m.matched
    /\ IsInt(CleanAmount(m.amount))
    /\ IntOf(CleanAmount(m.amount)) > 0

\* a match whose amount int() accepts
Usable(m) == m.matched /\ IsInt(CleanAmount(m.amount))

\* the loop over the patterns without its break: every pattern that matches
\* appends a record
PrimaryLineNoBreak(line) ==
    (IF Usable(MatchFull(line)) THEN <<LineItemB(MatchFull(line))>> ELSE <<>>)
    \o (IF Usable(MatchLoose(line)) THEN <<LineItemB(MatchLoose(line))>> ELSE <<>>)

\* "for pattern in item_patterns" on one line: the records it appends
PrimaryLine(line) ==
    IF Usable(MatchFull(line)) THEN <<LineItemB(MatchFull(line))>>
    ELSE IF Usable(MatchLoose(line)) THEN <<LineItemB(MatchLoose(line))>>
    ELSE <<>>

\* re.search found a row on the line, whatever its amount
LineMatched(line) == MatchFull(line).matched \/ MatchLoose(line).matched

\* re.findall(r'(<family>).*?\\?([\d,]+)', ...) on one line: '.' stops at the
\* line break, so a keyword pairs with the first run of its own line
RECURSIVE FindAllLine(_, _)
FindAllLine(line, family) ==
    LET kws == { k \in 1..Len(line) :
                   line[k].kind = "word" /\ line[k].s \in family }
    IN  IF kws = {} THEN <<>>
        ELSE LET k    == SetMin(kws)
                 runs == { j \in (k + 1)..Len(line) : FirstRun(line[j]) # <<>> }
             IN  IF runs = {} THEN <<>>
                 ELSE <<FirstRun(line[SetMin(runs)])>>
                      \o FindAllLine(SubSeq(line, SetMin(runs) + 1, Len(line)), family)

\* the matches of all lines, in text order, computed by halves
RECURSIVE FindAllLines(_, _)
FindAllLines(ls, family) ==
    IF Len(ls) = 0 THEN <<>>
    ELSE IF Len(ls) = 1 THEN FindAllLine(ls[1], family)
    ELSE LET h == Len(ls) \div 2
         IN  FindAllLines(SubSeq(ls, 1, h), family)
             \o FindAllLines(SubSeq(ls, h + 1, Len(ls)), family)

FindAll(t, family) == FindAllLines(Split(t), family)

\* f"{(i+1):02d}"
Fmt02(n) == IF n < 10 THEN <<0, n>> ELSE
    [i \in 1..Len(NatChars(n)) |-> DigitOf(NatChars(n)[i])]

\* the fallback loop with "amount >= 0" as its filter
RECURSIVE FallbackItemsKeepZero(_, _, _, _, _)
FallbackItemsKeepZero(matches, i, year, month, name) ==
    IF i > Len(matches) THEN <<>>
    ELSE LET s == Remove(matches[i], ",")
         IN  (IF IsInt(s) /\ IntOf(s) >= 0
              THEN << [vendor |-> VendorB,
                       date |-> DateStr(year, month, Fmt02(i), "-"),
                       item_name |-> name, quantity |-> 1 * Scale, unit |-> "pc",
                       unit_price |-> IntOf(s), amount |-> IntOf(s)] >>
              ELSE <<>>)
             \o FallbackItemsKeepZero(matches, i + 1, year, month, name)

\* the fallback loop with a counter of the items it emits: i is the day of the
\* next item
RECURSIVE FallbackItemsCountEmitted(_, _, _, _, _)
FallbackItemsCountEmitted(matches, i, year, month, name) ==
    IF matches = <<>> THEN <<>>
    ELSE LET s == Remove(Head(matches), ",")
         IN  IF IsInt(s) /\ IntOf(s) > 0
             THEN << [vendor |-> VendorB,
                      date |-> DateStr(year, month, Fmt02(i), "-"),
                      item_name |-> name, quantity |-> 1 * Scale, unit |-> "pc",
                      unit_price |-> IntOf(s), amount |-> IntOf(s)] >>
                  \o FallbackItemsCountEmitted(Tail(matches), i + 1, year, month,
                                               name)
             ELSE FallbackItemsCountEmitted(Tail(matches), i, year, month, name)

\* "for i, match in enumerate(matches)" from match i on: i counts every
\* match; the items of matches i..Len(matches), computed by halves
RECURSIVE FallbackItems(_, _, _, _, _)
FallbackItems(matches, i, year, month, name) ==
    IF i > Len(matches) THEN <<>>
    ELSE IF i = Len(matches)
    THEN LET s == Remove(matches[i], ",")
         IN  IF IsInt(s) /\ IntOf(s) > 0
             THEN << [vendor |-> VendorB,
                      date |-> DateStr(year, month, Fmt02(i), "-"),
                      item_name |-> name, quantity |-> 1 * Scale, unit |-> "pc",
                      unit_price |-> IntOf(s), amount |-> IntOf(s)] >>
             ELSE <<>>
    ELSE LET h == (i + Len(matches)) \div 2
         IN  FallbackItems(SubSeq(matches, 1, h), i, year, month, name)
             \o FallbackItems(matches, h + 1, year, month, name)

\* lines 358-397: both keyword scans
Fallback(t) ==
    FallbackItems(FindAll(t, CaviarWords), 1, InvoiceYearB(t), InvoiceMonthB(t),
                  ItemCaviar)
    \o FallbackItems(FindAll(t, ButterWords), 1, InvoiceYearB(t), InvoiceMonthB(t),
                     ItemButter)

\* the records of "for line in lines", computed by halves
RECURSIVE Primary(_)
Primary(ls) ==
    IF Len(ls) = 0 THEN <<>>
    ELSE IF Len(ls) = 1 THEN PrimaryLine(ls[1])
    ELSE LET h == Len(ls) \div 2
         IN  Primary(SubSeq(ls, 1, h)) \o Primary(SubSeq(ls, h + 1, Len(ls)))

\* the value parse_french_fnb_invoice(text) returns
parse_french_fnb_invoice(t) ==
    IF Primary(Split(t)) # <<>> THEN Primary(Split(t)) ELSE Fallback(t)

(***************************************************************************)
(* Grammar B step by step                                                  *)
(***************************************************************************)
OrderDate == Date(<<2, 0, 2, 5>>, <<1, 0>>, <<0, 1>>)    \* 2025/10/01
RowNo     == Num(1, <<>>, FALSE, "")                     \* 1
SlipNo    == Num(6830, <<>>, FALSE, "")                  \* 6830

\* the amounts Grammar B texts of the model state
AmountsB ==
    { Amt(TRUE,  <<"1", "1", "7", ",", "0", "0", "0">>),   \* \117,000
      Amt(FALSE, <<"1", "1", "7", ",", "0", "0", "0">>),   \* 117,000
      Amt(FALSE, <<"-", "5", ",", "0", "0", "0">>),        \* -5,000
      Amt(FALSE, <<"0">>),                                 \* 0
      Amt(FALSE, <<"-">>) }                                \* -

\* the item descriptions
DescsB ==
    { <<Word("KAVIARI"), WordNum("100g", <<1, 0, 0>>)>>,   \* KAVIARI 100g
      <<Word("PARETTO")>> }                                \* パレット

\* the lines: rows with or without a row number, rows whose layout is lost
\* (a keyword and an amount), a header
LinesB ==
    { (IF rn THEN <<RowNo>> ELSE <<>>)
        \o <<OrderDate, SlipNo>> \o d \o <<OrderDate, Marker, a>> :
        rn \in BOOLEAN, d \in DescsB, a \in AmountsB }
    \cup { <<k, a>> : k \in {Word("kaviari"), Word("BUURU")}, a \in AmountsB }
    \cup { <<Hdr(<<2, 0, 2, 4>>, <<3>>, TRUE)>> }

\* '\n'.join(ls)
RECURSIVE Join(_)
Join(ls) ==
    IF ls = <<>> THEN <<>>
    ELSE IF Len(ls) = 1 THEN ls[1]
    ELSE ls[1] \o <<NL>> \o Join(Tail(ls))

\* a statement whose layout is lost on every line: a caviar line with amount
\* 0, ninety-nine caviar lines and a butter line with amount 117,000
LongStatement ==
    [p \in 1..(3 * 101 - 1) |->
        IF p % 3 = 0 THEN NL
        ELSE IF p % 3 = 2
        THEN IF p = 2 THEN Amt(FALSE, <<"0">>)
             ELSE Amt(FALSE, <<"1", "1", "7", ",", "0", "0", "0">>)
        ELSE IF p < 3 * 100 THEN Word("kaviari") ELSE Word("BUURU")]

\* texts of up to MaxLinesB lines; LongStatement
TextsB ==
    { Join(ls) : ls \in UNION { [1..n -> LinesB] : n \in 0..MaxLinesB } }
    \cup {LongStatement}

InitB ==
    /\ text \in TextsB
    /\ pcB = "start"
    /\ pcA = "idle"
    /\ IdleShared /\ IdleA /\ IdleB /\ IdleX

\* lines 310-318: the empty list, header, split into lines
B_Header ==
    /\ pcB = "start"
    /\ records' = <<>>
    /\ nMatched' = 0 /\ nPrimary' = 0 /\ scans' = {}
    /\ invoice_year' = InvoiceYearB(text)
    /\ invoice_month' = InvoiceMonthB(text)
    /\ lineNo' = 1
    /\ pcB' = "lines"
    /\ UNCHANGED <<text, onlyA, varsX>>

\* lines 329-355: one iteration of "for line in lines"
B_Line ==
    /\ pcB = "lines"
    /\ lineNo <= Len(Split(text))
    /\ records' = records \o PrimaryLine(Split(text)[lineNo])
    /\ nMatched' = nMatched + (IF LineMatched(Split(text)[lineNo]) THEN 1 ELSE 0)
    /\ lineNo' = lineNo + 1
    /\ UNCHANGED <<text, invoice_year, invoice_month, pcB, nPrimary, scans, onlyA, varsX>>

\* the fallback scans run whatever the primary strategy emitted
B_FallbackAlways ==
    /\ pcB = "lines"
    /\ lineNo > Len(Split(text))
    /\ nPrimary' = Len(records)
    /\ records' = records \o Fallback(text)
    /\ scans' = {"caviar", "butter"}
    /\ pcB' = "done"
    /\ UNCHANGED <<text, invoice_year, invoice_month, lineNo, nMatched, onlyA, varsX>>

\* lines 357-399: "if not records", the two keyword scans, return
B_Fallback ==
    /\ pcB = "lines"
    /\ lineNo > Len(Split(text))
    /\ nPrimary' = Len(records)
    /\ IF records = <<>>
       THEN /\ records' = Fallback(text)
            /\ scans' = {"caviar", "butter"}
       ELSE UNCHANGED <<records, scans>>
    /\ pcB' = "done"
    /\ UNCHANGED <<text, invoice_year, invoice_month, lineNo, nMatched, onlyA, varsX>>

NextB == B_Header \/ B_Line \/ B_Fallback

SpecB == InitB /\ [][NextB]_vars

\* the step-by-step run returns what the function returns
StepwiseIsFunctionB == pcB = "done" => records = parse_french_fnb_invoice(text)

\* documents parsed one after another: texts of one token for Grammar A, of
\* one line for Grammar B
TextsSeqA == {<<>>} \cup { <<k>> : k \in AlphabetA }
TextsSeqB == LinesB

\* the first document goes to a grammar
InitSeq ==
    /\ nFiles \in 1..MaxFiles
    /\ idx = 1
    /\ inv = "" /\ mode = "preview" /\ calls = <<>>
    /\ warnings = <<>> /\ saved_invoices = 0 /\ all_invoices = <<>>
    /\ \/ text \in TextsSeqA /\ pcA = "start" /\ pcB = "idle"
       \/ text \in TextsSeqB /\ pcA = "idle" /\ pcB = "start"
    /\ IdleShared /\ IdleA /\ IdleB /\ IdleCall

\* app.py 236-242: the list a grammar returned is added to all_invoices and
\* the next document goes to a grammar; nothing else is touched between the
\* two calls
S_Next ==
    /\ pcA = "done" \/ pcB = "done"
    /\ idx < nFiles
    /\ idx' = idx + 1
    /\ all_invoices' = all_invoices \o records
    /\ \/ text' \in TextsSeqA /\ pcA' = "start" /\ pcB' = "idle"
       \/ text' \in TextsSeqB /\ pcA' = "idle" /\ pcB' = "start"
    /\ UNCHANGED <<invoice_year, invoice_month, lineNo, records, seen_qtys,
                   potential_qtys, current_date, nS2, nMatched, nPrimary, scans,
                   nFiles, inv, mode, calls, warnings, saved_invoices, avail,
                   call, pcX>>

NextSeq == NextA \/ NextB \/ S_Next

SpecSeq == InitSeq /\ [][NextSeq]_vars

\* a text handed to one of the two grammars
InitAB == InitA \/ InitB

NextAB == NextA \/ NextB

SpecAB == InitAB /\ [][NextAB]_vars

(***************************************************************************)
(* Text Recovery and Vendor Classifier: extract_invoice_data;              *)
(* the batch loops of main                                                 *)
(***************************************************************************)
\* a run of blanks
WS == [kind |-> "ws"]

\* text_content.strip() is empty
Blank(t) == \A i \in 1..Len(t) : t[i].kind \in {"ws", "nl"}

\* the names an uploaded file of the model can have
FileNames == {"Meat_Oct.pdf", "FNB-2025.pdf", "scan.pdf"}

\* uploaded_file.name.lower(): the vendor keywords the lowered name holds
FileKeywords(name) ==
    CASE name = "Meat_Oct.pdf" -> {"meat"}
      [] name = "FNB-2025.pdf" -> {"fnb"}
      [] OTHER                 -> {}

\* the substrings the classifier looks for in the text: ひら山, フレンチ, 和牛,
\* ヒレ, キャビア, KAVIARI
SubHirayama == "JP-hirayama"
SubFrench   == "JP-furenchi"
SubWagyu    == "JP-wagyu"
SubHire     == "JP-hire"
SubCaviar   == "JP-kyabia"
SubKaviari  == "KAVIARI"

\* which of them a piece of text holds ('in' is case sensitive)
Substrings(k) ==
    IF k.kind # "word" THEN {}
    ELSE CASE k.s = "MISE-HIRAYAMA" -> {SubHirayama}         \* ミートショップひら山
           [] k.s = "FURENCHI"      -> {SubFrench}           \* フレンチ
           [] k.s = "WAGYU-HIRE"    -> {SubWagyu, SubHire}   \* 和牛ヒレ
           [] k.s = "KYABIA"        -> {SubCaviar}           \* キャビア
           [] k.s = "KAVIARI"       -> {SubKaviari}
           [] OTHER                 -> {}

TextHas(t, sub) == \E i \in 1..Len(t) : sub \in Substrings(t[i])

\* the chain with Grammar A in the place of the final else
ClassifyDefaultA(name, t) ==
    IF \/ "hirayama" \in FileKeywords(name)
       \/ "meat" \in FileKeywords(name)
       \/ TextHas(t, SubHirayama)
    THEN "A"
    ELSE IF \/ "french" \in FileKeywords(name)
            \/ "fnb" \in FileKeywords(name)
            \/ "caviar" \in FileKeywords(name)
            \/ TextHas(t, SubFrench)
    THEN "B"
    ELSE IF TextHas(t, SubCaviar) \/ TextHas(t, SubKaviari) THEN "B"
    ELSE "A"

\* lines 184-195: the if / elif / else chain
Classify(name, t) ==
    IF \/ "hirayama" \in FileKeywords(name)
       \/ "meat" \in FileKeywords(name)
       \/ TextHas(t, SubHirayama)
    THEN "A"
    ELSE IF \/ "french" \in FileKeywords(name)
            \/ "fnb" \in FileKeywords(name)
            \/ "caviar" \in FileKeywords(name)
            \/ TextHas(t, SubFrench)
    THEN "B"
    ELSE IF TextHas(t, SubWagyu) \/ TextHas(t, SubHire) THEN "A"
    ELSE IF TextHas(t, SubCaviar) \/ TextHas(t, SubKaviari) THEN "B"
    ELSE "none"

\* lines 187, 190, 193: the grammar the classifier chose, applied to the text
Grammar(g, t) ==
    CASE g = "A" -> parse_hirayama_invoice(t)
      [] g = "B" -> parse_french_fnb_invoice(t)
      [] OTHER   -> <<>>

\* the list the call returns: the grammar runs once, on the value of the text
\* (BagOfAll applies it to the evaluated argument)
Parse(g, t) ==
    CHOOSE d \in BagToSet(BagOfAll(LAMBDA x : Grammar(g, x), SetToBag({t}))) :
        TRUE

\* what page.extract_text() returns for the pages of the model: nothing,
\* blanks, a Vendor A page, a Vendor B page
LayerTexts ==
    { <<>>,
      <<WS>>,
      <<Word("MISE-HIRAYAMA"), Num(4, <<0>>, TRUE, "kg")>>,
      <<Word("FURENCHI"), Word("KAVIARI"),
        Amt(TRUE, <<"1", "1", "7", ",", "0", "0", "0">>)>> }

\* what pytesseract.image_to_string() returns: nothing, a page naming the
\* tracked beef cut, a page naming no vendor and no tracked product
OcrTexts ==
    { <<>>,
      <<Word("WAGYU-HIRE"), Num(4, <<0, 0, 4>>, TRUE, "KG")>>,
      <<Num(10, <<0>>, TRUE, "")>> }

\* database.save_invoices(supabase, invoice_data): the rows it reports saved
SavedCounts(data) == 0..Len(data)

InitX ==
    /\ nFiles \in 0..MaxFiles
    /\ inv = ""
    /\ mode \in {"save", "preview"}
    /\ PDFPLUMBER_AVAILABLE \in BOOLEAN
    /\ OCR_AVAILABLE \in BOOLEAN
    /\ idx = 0 /\ calls = <<>> /\ warnings = <<>>
    /\ saved_invoices = 0 /\ all_invoices = <<>>
    /\ pcX = "loop"
    /\ nPages = 0 /\ tmp_created = FALSE /\ tmp_exists = FALSE
    /\ text_content = <<>> /\ directText = <<>> /\ pageNo = 0
    /\ rasterized = FALSE /\ ocrCalls = <<>> /\ ocrTexts = <<>>
    /\ ocrFault = FALSE /\ grammar = "none" /\ fault = "none"
    /\ classified = FALSE
    /\ invoice_data = <<>>
    /\ pcA = "idle" /\ pcB = "idle" /\ text = <<>>
    /\ IdleShared /\ IdleA /\ IdleB

Warning(i, name, msg) == [idx |-> i, name |-> name, msg |-> msg]

\* the state a call of extract_invoice_data starts from
EnterCall ==
    /\ \E n \in 1..MaxPages : nPages' = n
    /\ tmp_created' = FALSE /\ tmp_exists' = FALSE
    /\ text_content' = <<>> /\ directText' = <<>> /\ pageNo' = 0
    /\ rasterized' = FALSE /\ ocrCalls' = <<>> /\ ocrTexts' = <<>>
    /\ ocrFault' = FALSE /\ grammar' = "none" /\ fault' = "none"
    /\ classified' = FALSE
    /\ invoice_data' = <<>>

\* the locals of extract_invoice_data are gone
DropLocals ==
    /\ nPages' = 0
    /\ text_content' = <<>> /\ directText' = <<>> /\ pageNo' = 0
    /\ rasterized' = FALSE /\ ocrCalls' = <<>> /\ ocrTexts' = <<>>
    /\ ocrFault' = FALSE /\ grammar' = "none" /\ classified' = FALSE

\* the caller goes on after the call: the returned list, the fault the call
\* printed and the file it may have left on disk stay
LeaveCall ==
    /\ DropLocals
    /\ UNCHANGED <<tmp_created, tmp_exists, fault, invoice_data>>

\* app.py 163-166, 236-240: the loop takes the next file and calls
\* extract_invoice_data (in the preview loop after inv.seek(0)). The loop
\* reads each element of invoice_files once; the name of the file is drawn
\* where it is first read
M_Call ==
    /\ pcX = "loop"
    /\ idx < nFiles
    /\ idx' = idx + 1
    /\ inv' = ""
    /\ calls' = Append(calls, idx + 1)
    /\ EnterCall
    /\ pcX' = "mktemp"
    /\ UNCHANGED <<nFiles, mode, warnings, saved_invoices, all_invoices,
                   avail, shared, onlyA, onlyB>>

\* app.py 239, 243-244: inv.seek(0) raises in the preview loop
M_SeekFault ==
    /\ pcX = "loop"
    /\ idx < nFiles
    /\ mode = "preview"
    /\ idx' = idx + 1
    /\ \E name \in FileNames :
          /\ inv' = name
          /\ warnings' = Append(warnings, Warning(idx + 1, name, "seek"))
    /\ UNCHANGED <<nFiles, mode, calls, saved_invoices, all_invoices,
                   avail, call, pcX, shared, onlyA, onlyB>>

\* the loop is over
M_End ==
    /\ pcX = "loop"
    /\ idx = nFiles
    /\ pcX' = "end"
    /\ UNCHANGED <<batch, avail, call, shared, onlyA, onlyB>>

\* the exception without the outer handler: it leaves the function
ExceptRaise(msg) ==
    /\ fault' = msg
    /\ invoice_data' = <<>>
    /\ pcX' = "raised"

\* lines 197-199: the outer handler prints the exception and returns []
Except(msg) ==
    /\ fault' = msg
    /\ invoice_data' = <<>>
    /\ pcX' = "ret"

\* line 147: tempfile.NamedTemporaryFile(delete=False, suffix='.pdf')
E_MkTemp ==
    /\ pcX = "mktemp"
    /\ \/ /\ tmp_created' = TRUE
          /\ tmp_exists' = TRUE
          /\ pcX' = "write"
          /\ UNCHANGED <<fault, invoice_data>>
       \/ /\ Except("tempfile")
          /\ UNCHANGED <<tmp_created, tmp_exists>>
    /\ UNCHANGED <<batch, avail, nPages, text_content, directText, pageNo,
                   rasterized, ocrCalls, ocrTexts, ocrFault, grammar, classified,
                   shared, onlyA, onlyB>>

\* lines 148-149: tmp.write(uploaded_file.read()); the with block closes the
\* file, which stays on disk (delete=False)
E_Write ==
    /\ pcX = "write"
    /\ \/ /\ pcX' = "seek"
          /\ UNCHANGED <<fault, invoice_data>>
       \/ Except("write")
    /\ UNCHANGED <<batch, avail, nPages, tmp_created, tmp_exists, text_content,
                   directText, pageNo, rasterized, ocrCalls, ocrTexts, ocrFault,
                   grammar, classified, shared, onlyA, onlyB>>

\* line 151: uploaded_file.seek(0)
E_Seek ==
    /\ pcX = "seek"
    /\ \/ /\ pcX' = "open"
          /\ UNCHANGED <<fault, invoice_data>>
       \/ Except("seek")
    /\ UNCHANGED <<batch, avail, nPages, tmp_created, tmp_exists, text_content,
                   directText, pageNo, rasterized, ocrCalls, ocrTexts, ocrFault,
                   grammar, classified, shared, onlyA, onlyB>>

\* lines 154-157, 162-163: pdfplumber.open(tmp_path), when pdfplumber is there
E_Open ==
    /\ pcX = "open"
    /\ IF PDFPLUMBER_AVAILABLE
       THEN \/ pageNo' = 1 /\ pcX' = "page"
            \/ pcX' = "ocr" /\ UNCHANGED pageNo
       ELSE pcX' = "ocr" /\ UNCHANGED pageNo
    /\ UNCHANGED <<batch, avail, nPages, tmp_created, tmp_exists, text_content,
                   directText, rasterized, ocrCalls, ocrTexts, ocrFault, grammar, classified,
                   fault, invoice_data, shared, onlyA, onlyB>>

\* lines 158-163: one page of "for page in pdf.pages"
E_Page ==
    /\ pcX = "page"
    /\ \/ \E page_text \in LayerTexts :
            /\ LET found == IF page_text # <<>>
                            THEN text_content \o page_text \o <<NL>>
                            ELSE text_content
               IN  text_content' = found /\ directText' = found
            /\ pageNo' = pageNo + 1
            /\ pcX' = IF pageNo = nPages THEN "ocr" ELSE "page"
       \/ /\ pcX' = "ocr"
          /\ UNCHANGED <<text_content, directText, pageNo>>
    /\ UNCHANGED <<batch, avail, nPages, tmp_created, tmp_exists, rasterized,
                   ocrCalls, ocrTexts, ocrFault, grammar, classified, fault, invoice_data,
                   shared, onlyA, onlyB>>

\* the OCR decision without the test of the text found so far
E_OcrAlways ==
    /\ pcX = "ocr"
    /\ IF OCR_AVAILABLE
       THEN /\ rasterized' = TRUE
            /\ \/ pageNo' = 1 /\ pcX' = "ocrpage" /\ UNCHANGED ocrFault
               \/ ocrFault' = TRUE /\ pcX' = "finish" /\ UNCHANGED pageNo
       ELSE /\ pcX' = "finish"
            /\ UNCHANGED <<rasterized, pageNo, ocrFault>>
    /\ UNCHANGED <<batch, avail, nPages, tmp_created, tmp_exists, text_content,
                   directText, ocrCalls, ocrTexts, grammar, classified, fault, invoice_data,
                   shared, onlyA, onlyB>>

\* lines 165-168, 171-172: the OCR decision and convert_from_path
E_Ocr ==
    /\ pcX = "ocr"
    /\ IF Blank(text_content) /\ OCR_AVAILABLE
       THEN /\ rasterized' = TRUE
            /\ \/ pageNo' = 1 /\ pcX' = "ocrpage" /\ UNCHANGED ocrFault
               \/ ocrFault' = TRUE /\ pcX' = "finish" /\ UNCHANGED pageNo
       ELSE /\ pcX' = "finish"
            /\ UNCHANGED <<rasterized, pageNo, ocrFault>>
    /\ UNCHANGED <<batch, avail, nPages, tmp_created, tmp_exists, text_content,
                   directText, ocrCalls, ocrTexts, grammar, classified, fault, invoice_data,
                   shared, onlyA, onlyB>>

\* one image, its text put in front of the text found so far
E_OcrPagePrepend ==
    /\ pcX = "ocrpage"
    /\ ocrCalls' = Append(ocrCalls, pageNo)
    /\ \/ \E ocr_text \in OcrTexts :
            /\ text_content' = ocr_text \o <<NL>> \o text_content
            /\ ocrTexts' = Append(ocrTexts, ocr_text)
            /\ pageNo' = pageNo + 1
            /\ pcX' = IF pageNo = nPages THEN "finish" ELSE "ocrpage"
            /\ UNCHANGED ocrFault
       \/ /\ ocrFault' = TRUE
          /\ pcX' = "finish"
          /\ UNCHANGED <<text_content, ocrTexts, pageNo>>
    /\ UNCHANGED <<batch, avail, nPages, tmp_created, tmp_exists, directText,
                   rasterized, grammar, classified, fault, invoice_data, shared, onlyA, onlyB>>

\* lines 169-172: one image of "for img in images"
E_OcrPage ==
    /\ pcX = "ocrpage"
    /\ ocrCalls' = Append(ocrCalls, pageNo)
    /\ \/ \E ocr_text \in OcrTexts :
            /\ text_content' = text_content \o ocr_text \o <<NL>>
            /\ ocrTexts' = Append(ocrTexts, ocr_text)
            /\ pageNo' = pageNo + 1
            /\ pcX' = IF pageNo = nPages THEN "finish" ELSE "ocrpage"
            /\ UNCHANGED ocrFault
       \/ /\ ocrFault' = TRUE
          /\ pcX' = "finish"
          /\ UNCHANGED <<text_content, ocrTexts, pageNo>>
    /\ UNCHANGED <<batch, avail, nPages, tmp_created, tmp_exists, directText,
                   rasterized, grammar, classified, fault, invoice_data, shared, onlyA, onlyB>>

\* the end of the call without lines 177-179: the classifier and the grammar
\* run on a text of blanks too
E_FinishNoBlankTest ==
    /\ pcX = "finish"
    /\ \/ /\ tmp_exists' = FALSE
          /\ \/ /\ \E name \in FileNames : inv' = name
                /\ classified' = TRUE
                /\ LET g == Classify(inv', text_content)
                   IN  /\ grammar' = g
                       /\ invoice_data' = Parse(g, text_content)
                /\ pcX' = "ret"
                /\ UNCHANGED <<fault, nPages, text_content, directText, pageNo,
                               rasterized, ocrCalls, ocrTexts, ocrFault>>
             \/ Except("classify") /\ DropLocals /\ UNCHANGED inv
       \/ Except("unlink") /\ DropLocals /\ UNCHANGED <<tmp_exists, inv>>
    /\ UNCHANGED <<nFiles, mode, idx, calls, warnings, saved_invoices,
                   all_invoices, avail, tmp_created, shared, onlyA, onlyB>>

\* lines 174-195: os.unlink(tmp_path), the empty-text return, the lowered
\* file name, the classifier and the grammar; what raises on the way goes to
\* the outer handler, which returns [] (the locals are gone with it). The
\* name of the file is drawn at line 182, where the call reads it
E_Finish ==
    /\ pcX = "finish"
    /\ \/ /\ tmp_exists' = FALSE
          /\ IF Blank(text_content)
             THEN /\ invoice_data' = <<>>
                  /\ pcX' = "ret"
                  /\ UNCHANGED <<inv, grammar, classified, fault>>
                  /\ UNCHANGED <<nPages, text_content, directText, pageNo,
                                 rasterized, ocrCalls, ocrTexts, ocrFault>>
             ELSE \/ /\ \E name \in FileNames : inv' = name
                     /\ classified' = TRUE
                     /\ LET g == Classify(inv', text_content)
                        IN  /\ grammar' = g
                            /\ invoice_data' = Parse(g, text_content)
                     /\ pcX' = "ret"
                     /\ UNCHANGED fault
                     /\ UNCHANGED <<nPages, text_content, directText, pageNo,
                                    rasterized, ocrCalls, ocrTexts, ocrFault>>
                  \/ Except("classify") /\ DropLocals /\ UNCHANGED inv
       \/ Except("unlink") /\ DropLocals /\ UNCHANGED <<tmp_exists, inv>>
    /\ UNCHANGED <<nFiles, mode, idx, calls, warnings, saved_invoices,
                   all_invoices, avail, tmp_created, shared, onlyA, onlyB>>

\* the save step without a handler: the exception ends the loop
M_SaveUnhandled ==
    /\ pcX = "ret"
    /\ mode = "save"
    /\ IF invoice_data # <<>>
       THEN \/ /\ \E n \in SavedCounts(invoice_data) :
                    saved_invoices' = saved_invoices + n
               /\ pcX' = "loop"
            \/ /\ pcX' = "end"
               /\ UNCHANGED saved_invoices
       ELSE pcX' = "loop" /\ UNCHANGED saved_invoices
    /\ LeaveCall
    /\ UNCHANGED <<nFiles, inv, mode, idx, calls, warnings, all_invoices, avail,
                   shared, onlyA, onlyB>>

\* app.py 167-170: "if invoice_data: saved_invoices += save_invoices(...)",
\* with the handler of the loop body
M_Save ==
    /\ pcX = "ret"
    /\ mode = "save"
    /\ IF invoice_data # <<>>
       THEN \/ /\ \E n \in SavedCounts(invoice_data) :
                    saved_invoices' = saved_invoices + n
               /\ UNCHANGED warnings
            \/ /\ warnings' = Append(warnings, Warning(idx, inv, "save"))
               /\ UNCHANGED saved_invoices
       ELSE UNCHANGED <<saved_invoices, warnings>>
    /\ pcX' = "loop"
    /\ LeaveCall
    /\ UNCHANGED <<nFiles, inv, mode, idx, calls, all_invoices, avail,
                   shared, onlyA, onlyB>>

\* app.py 241-242: "if invoice_data: all_invoices.extend(invoice_data)"
M_Extend ==
    /\ pcX = "ret"
    /\ mode = "preview"
    /\ all_invoices' = all_invoices \o invoice_data
    /\ pcX' = "loop"
    /\ LeaveCall
    /\ UNCHANGED <<nFiles, inv, mode, idx, calls, warnings, saved_invoices,
                   avail, shared, onlyA, onlyB>>

NextX ==
    \/ M_Call \/ M_SeekFault \/ M_End
    \/ E_MkTemp \/ E_Write \/ E_Seek \/ E_Open \/ E_Page \/ E_Ocr \/ E_OcrPage
    \/ E_Finish
    \/ M_Save \/ M_Extend

SpecX == InitX /\ [][NextX]_vars

\* the loops run to completion: main is one synchronous thread
FairSpecX == SpecX /\ WF_vars(NextX)

(***************************************************************************)
(* Claims about Grammar A                                                  *)
(***************************************************************************)
Idx(s) == 1..Len(s)

\* the tokens of the text that state a range boundary with a decimal point
IsBoundaryTok(k) ==
    k.kind = "num" /\ k.pt /\ FloatOf(k) \in {RangeMin, RangeMax}

\* the token is one Strategy 2's pattern captures
IsLineScoped(k) ==
    k.kind = "num" /\ k.pt /\ k.frac # <<>> /\ Lower(k.sfx) \in {"kg", "ke"}

AllInRange ==
    \A i \in Idx(records) :
        RangeMin <= records[i].quantity /\ records[i].quantity <= RangeMax

\* C1 as stated: every returned quantity is within [4.0, 10.0], and every
\* quantity equal to 4.0 or 10.0 that the text writes with a decimal point is
\* among the returned LineItems.
C1_BoundaryAlwaysEmitted ==
    /\ AllInRange
    /\ pcA = "done" =>
         \A p \in Idx(text) : IsBoundaryTok(text[p]) =>
             \E i \in Idx(records) : records[i].quantity = FloatOf(text[p])

\* C1 amended: every quantity built so far or returned is within [4.0, 10.0],
\* and the bounds are inclusive: for a quantity equal to 4.0 or 10.0 written
\* with a decimal point, which is followed by a weight unit or meets fewer
\* than 10 items after Strategy 2, the result holds a LineItem with its
\* rounded key (the quantity itself, or the earlier occurrence that took the
\* key).
C1_RangeInclusive ==
    /\ AllInRange
    /\ pcA = "done" =>
         \A p \in Idx(text) :
             (IsBoundaryTok(text[p]) /\ (IsLineScoped(text[p]) \/ nS2 < MinRecords))
             => \E i \in Idx(records) :
                    Round2(records[i].quantity) = FloatOf(text[p])

\* both boundaries are returned, one by Strategy 2 and one by Strategy 3, from
\* a text that also states a quantity out of range
C1_Witness ==
    /\ pcA = "done"
    /\ \E i \in Idx(records) : records[i].quantity = RangeMin
    /\ \E p \in Idx(text) : IsLineScoped(text[p]) /\ FloatOf(text[p]) = RangeMin
    /\ \E i \in Idx(records) : records[i].quantity = RangeMax
    /\ \A p \in Idx(text) : IsLineScoped(text[p]) => FloatOf(text[p]) # RangeMax
    /\ \E p \in Idx(text) : text[p].kind = "num" /\ ~InRange(FloatOf(text[p]))

\* C2: at every point of the function and in the list it returns, no two
\* LineItems have quantities that round to the same 2-decimal key, whichever
\* strategy emitted them.
C2_NoDuplicateKey ==
    \A i, j \in Idx(records) :
        i # j => Round2(records[i].quantity) # Round2(records[j].quantity)

\* the text states one key twice, on two lines, and one LineItem has it
C2_Witness ==
    /\ pcA = "done"
    /\ \E p, q \in Idx(text) :
          /\ p < q
          /\ IsLineScoped(text[p]) /\ IsLineScoped(text[q])
          /\ InRange(FloatOf(text[p])) /\ InRange(FloatOf(text[q]))
          /\ Round2(FloatOf(text[p])) = Round2(FloatOf(text[q]))
          /\ \E r \in p..q : text[r].kind = "nl"
          /\ Cardinality({ i \in Idx(records) :
                 Round2(records[i].quantity) = Round2(FloatOf(text[p])) }) = 1

\* C3 as stated: every LineItem's amount is exactly quantity * 12000 and its
\* unit price is 12000.
C3_AmountExact ==
    \A i \in Idx(records) :
        /\ records[i].unit_price = UnitPrice
        /\ records[i].amount * Scale = records[i].quantity * UnitPrice

\* the rounded keys of the first n LineItems
KeysOf(n) == { Round2(records[i].quantity) : i \in 1..n }

\* the rounded keys of the candidate pool
PoolKeys == { Round2(potential_qtys[k]) : k \in Idx(potential_qtys) }

LineOf(p) == 1 + Cardinality({ q \in 1..(p - 1) : text[q].kind = "nl" })

\* the lines among ls that hold a slash date
DateLines(ls) ==
    { m \in Idx(ls) : \E k \in Idx(ls[m]) : ls[m][k].kind = "date" }

SetMax(S) == CHOOSE x \in S : \A y \in S : x >= y

\* the date the claim gives a quantity of line n, dl being the dated lines
ClaimedDate(ls, dl, n) ==
    LET dated == { m \in dl : m <= n }
    IN  IF dated = {}
        THEN DateStr(invoice_year, invoice_month, <<0, 1>>, "-")
        ELSE LET line == ls[SetMax(dated)]
                 k    == SetMin({ j \in Idx(line) : line[j].kind = "date" })
             IN  DateStr(<<2, 0>>
                           \o SubSeq(line[k].y, Len(line[k].y) - 1, Len(line[k].y)),
                         line[k].m, line[k].d, "-")

\* the tokens with a weight unit that state the quantity of LineItem i; the
\* first of them is the one Strategy 2 emitted
SourcesOf(i) ==
    { p \in Idx(text) :
        IsLineScoped(text[p]) /\ FloatOf(text[p]) = records[i].quantity }

SourceLine(i) == LineOf(SetMin(SourcesOf(i)))

\* Strategy 2 has read the last line
Strategy2Over == pcA = "lines" /\ lineNo > Len(Split(text))

C20_SortedByQuantity ==
    pcA = "done" =>
        \A i, j \in Idx(records) :
            i < j => records[i].quantity <= records[j].quantity

\* a quantity Strategy 3 added comes before quantities Strategy 2 emitted
C20_Witness ==
    /\ pcA = "done"
    /\ nS2 > 0
    /\ Len(records) > nS2
    /\ \E k \in Idx(potential_qtys) : potential_qtys[k] = records[1].quantity
    /\ \A p \in Idx(text) :
          IsLineScoped(text[p]) => FloatOf(text[p]) # records[1].quantity

\* the occurrences Strategy 2 reads: the tokens with a weight unit whose
\* quantity is in range
Occurrences ==
    { p \in Idx(text) : IsLineScoped(text[p]) /\ InRange(FloatOf(text[p])) }

\* the first day of the header month, of the default month without a header
HeaderFirstDay ==
    IF HeaderMatchA(text) = <<>>
    THEN DateStr(<<2, 0, 2, 5>>, <<1, 0>>, <<0, 1>>, "-")
    ELSE DateStr(HeaderMatchA(text)[1].y, ZFill2(HeaderMatchA(text)[1].m),
                 <<0, 1>>, "-")

\* C25: of the occurrences that share a rounded key, the LineItem kept is the
\* first one Strategy 2 reads, in line order, with the running date of that
\* occurrence; Strategy 3 emits a quantity only when no occurrence of
\* Strategy 2 has its key, and dates it the first day of the header month, or
\* of the default month when the text has no header.
C25_FirstOccurrenceKept ==
    pcA \in {"sort", "done"} =>
        LET ls      == Split(text)
            dl      == DateLines(ls)
            occ     == Occurrences
            key(p)  == Round2(FloatOf(text[p]))
            first(p) == SetMin({ q \in occ : key(q) = key(p) })
        IN  /\ \A p \in occ :
                  /\ \E i \in Idx(records) : Round2(records[i].quantity) = key(p)
                  /\ \A i \in Idx(records) :
                        Round2(records[i].quantity) = key(p) =>
                            /\ records[i].quantity = FloatOf(text[first(p)])
                            /\ records[i].date
                                 = ClaimedDate(ls, dl, LineOf(first(p)))
            /\ \A i \in Idx(records) :
                  (\A p \in occ : key(p) # Round2(records[i].quantity)) =>
                      /\ records[i].date = HeaderFirstDay
                      /\ nS2 < MinRecords
            /\ pcA = "sort" =>
                  \A i \in (nS2 + 1)..Len(records) :
                      /\ \A p \in occ : key(p) # Round2(records[i].quantity)
                      /\ records[i].date = HeaderFirstDay

\* a weight without unit comes first in the text, two weights with a unit and
\* the same key follow on a dated line: the one LineItem is the first of these
\* two, with the date of its line
C25_Witness ==
    /\ pcA = "done"
    /\ Len(records) = 1
    /\ records[1].date # HeaderFirstDay
    /\ \E p, q, r \in Idx(text) :
          /\ p < q /\ q < r
          /\ text[p].kind = "num" /\ text[p].pt /\ text[p].sfx = ""
          /\ q \in Occurrences /\ r \in Occurrences
          /\ Round2(FloatOf(text[p])) = Round2(FloatOf(text[q]))
          /\ Round2(FloatOf(text[r])) = Round2(FloatOf(text[q]))
          /\ FloatOf(text[r]) # FloatOf(text[q])
          /\ records[1].quantity = FloatOf(text[q])

(***************************************************************************)
(* Claims about Grammar B                                                  *)
(***************************************************************************)
\* C8 as stated: when the primary strategy matched a row pattern on at least
\* one line, no fallback scan ran and the result is what the primary strategy
\* emitted.
C8_MatchStopsFallback ==
    (pcB = "done" /\ nMatched >= 1) => (scans = {} /\ Len(records) = nPrimary)

\* C8 amended: when the primary strategy emitted at least one LineItem (a row
\* pattern matched and its amount parsed as an integer), no fallback scan ran
\* and the result is what the primary strategy emitted.
C8_ItemStopsFallback ==
    (pcB = "done" /\ nPrimary >= 1) => (scans = {} /\ Len(records) = nPrimary)

\* the primary strategy emitted an item from a text in which the fallback
\* scans would have found one too
C8_Witness ==
    /\ pcB = "done"
    /\ nPrimary >= 1
    /\ Fallback(text) # <<>>

\* an amount made of digits and thousands separators, after a backslash or not
IsPlainAmount(k) ==
    /\ k.kind = "amt"
    /\ \A i \in 1..Len(k.s) : IsDigit(k.s[i]) \/ k.s[i] = ","
    /\ \E i \in 1..Len(k.s) : IsDigit(k.s[i])

\* the integer its digits form
RECURSIVE PlainValue(_)
PlainValue(s) ==
    IF s = <<>> THEN 0
    ELSE IF s[Len(s)] = "," THEN PlainValue(SubSeq(s, 1, Len(s) - 1))
    ELSE 10 * PlainValue(SubSeq(s, 1, Len(s) - 1)) + DigitOf(s[Len(s)])

\* a row of the structured layout: order date, slip number, description,
\* delivery date, marker, amount
IsRow(line) ==
    /\ Len(line) >= 6
    /\ line[Len(line) - 1] = Marker
    /\ line[Len(line) - 2] = OrderDate
    /\ \E i \in 1..2 : line[i] = OrderDate /\ line[i + 1] = SlipNo

\* the line the primary loop has just processed
LastLine == Split(text)[lineNo - 1]

\* C16: the primary strategy of Grammar B turns the amount of a row, when it
\* is made of digits and thousands separators with or without a backslash in
\* front, into the integer its digits form: the LineItem of the row has that
\* integer as amount.
C16_AmountIsDigits ==
    (/\ pcB = "lines" /\ lineNo > 1
     /\ IsRow(LastLine)
     /\ IsPlainAmount(LastLine[Len(LastLine)]))
    => /\ records # <<>>
       /\ records[Len(records)].amount
            = PlainValue(LastLine[Len(LastLine)].s)

\* '\117,000' and then '117,000' were both read as 117000
C16_Witness ==
    /\ pcB = "lines" /\ lineNo = 3
    /\ Len(records) = 2
    /\ Split(text)[1][Len(Split(text)[1])].bs
    /\ ~LastLine[Len(LastLine)].bs
    /\ records[1].amount = 117000
    /\ records[2].amount = 117000

\* an amount written as a credit: a minus sign, then digits and thousands
\* separators that form an integer above zero
IsCreditAmount(k) ==
    /\ k.kind = "amt"
    /\ Len(k.s) >= 2
    /\ k.s[1] = "-"
    /\ \A i \in 2..Len(k.s) : IsDigit(k.s[i]) \/ k.s[i] = ","
    /\ PlainValue(Tail(k.s)) > 0

\* the rows of the text whose amount is a credit
CreditRows ==
    { l \in Idx(Split(text)) :
        LET line == Split(text)[l]
        IN  IsRow(line) /\ IsCreditAmount(line[Len(line)]) }

\* C21: the primary strategy of Grammar B retains a row whose amount is
\* negative: the row yields a LineItem whose amount and unit price are that
\* negative integer and whose quantity is 1, and the list returned holds one
\* LineItem with a negative amount for every such row.
C21_CreditRetained ==
    /\ (/\ pcB = "lines" /\ lineNo > 1
        /\ IsRow(LastLine)
        /\ IsCreditAmount(LastLine[Len(LastLine)]))
       => /\ records # <<>>
          /\ LET r == records[Len(records)]
             IN  /\ r.amount = 0 - PlainValue(Tail(LastLine[Len(LastLine)].s))
                 /\ r.unit_price = r.amount
                 /\ r.quantity = 1 * Scale
    /\ pcB = "done" =>
          Cardinality({ i \in Idx(records) : records[i].amount < 0 })
            = Cardinality(CreditRows)

\* a credit of 5,000 on the first row and a charge on the second, both returned
C21_Witness ==
    /\ pcB = "done"
    /\ Len(records) = 2
    /\ CreditRows = {1}
    /\ records[1].amount = 0 - 5000
    /\ records[1].unit_price = 0 - 5000
    /\ records[2].amount > 0

\* the fallback scans ran
FallbackRan == pcB = "done" /\ scans # {}

\* a line whose layout is lost: a keyword of either family, then an amount
IsKeywordLine(line) ==
    /\ Len(line) = 2
    /\ line[1].kind = "word"
    /\ line[1].s \in CaviarWords \cup ButterWords
    /\ line[2].kind = "amt"

\* the text is made of keyword lines and headers
KeywordLinesOnly ==
    \A l \in Idx(Split(text)) :
        \/ IsKeywordLine(Split(text)[l])
        \/ HeaderMatchB(Split(text)[l]) # <<>>

\* the keyword lines whose amount is a charge: digits that form an integer
\* above zero, not written as a credit
ChargeLines ==
    { l \in Idx(Split(text)) :
        LET line == Split(text)[l]
        IN  /\ IsKeywordLine(line)
            /\ IsPlainAmount(line[2])
            /\ PlainValue(line[2].s) > 0 }

\* C22 as stated: every LineItem of the fallback strategy of Grammar B has an
\* amount above zero, and a keyword whose amount is zero or is written as a
\* negative adjustment yields no LineItem: of a text made of keyword lines and
\* headers, the LineItems are as many as the keyword lines with a charge.
C22_AdjustmentDropped ==
    FallbackRan =>
        /\ \A i \in Idx(records) : records[i].amount > 0
        /\ KeywordLinesOnly => Len(records) = Cardinality(ChargeLines)

\* the keyword lines of a family, among the lines ls, in which the scan finds
\* an amount: the matches of the family, in text order
MatchLines(ls, family) ==
    { l \in Idx(ls) :
        /\ IsKeywordLine(ls[l])
        /\ ls[l][1].s \in family
        /\ \E c \in Idx(ls[l][2].s) : IsDigit(ls[l][2].s[c]) }

\* the matches that are not filtered out: the digits form an integer above zero
EmittedLines(ls, matches) ==
    { l \in matches : PlainValue(SelectSeq(ls[l][2].s, IsDigit)) > 0 }

\* the place of l in S, 1-based
Rank(l, S) == Cardinality({ x \in S : x <= l })

\* k as two digits
TwoDigits(k) == <<(k \div 10) % 10, k % 10>>

\* k in decimal
RECURSIVE Decimal(_)
Decimal(k) == IF k < 10 THEN <<k>> ELSE Decimal(k \div 10) \o <<k % 10>>

\* k in decimal, with a zero in front when it has one digit
AtLeastTwoDigits(k) == IF k < 10 THEN <<0, k>> ELSE Decimal(k)

\* the LineItems of the fallback scans are the emitted caviar matches, then
\* the emitted butter matches, and the k-th match of its family has the date
\* <invoice year>-<invoice month>-<Day(k)>
FallbackDates(Day(_)) ==
    LET ls  == Split(text)
        mc  == MatchLines(ls, CaviarWords)
        mb  == MatchLines(ls, ButterWords)
        cav == EmittedLines(ls, mc)
        but == EmittedLines(ls, mb)
        nc  == Cardinality(cav)
    IN  /\ Len(records) = nc + Cardinality(but)
        /\ \A l \in cav :
              /\ records[Rank(l, cav)].item_name = ItemCaviar
              /\ records[Rank(l, cav)].date
                   = DateStr(invoice_year, invoice_month, Day(Rank(l, mc)), "-")
        /\ \A l \in but :
              /\ records[nc + Rank(l, but)].item_name = ItemButter
              /\ records[nc + Rank(l, but)].date
                   = DateStr(invoice_year, invoice_month, Day(Rank(l, mb)), "-")

\* the days of the emitted items of one family are strictly increasing
DaysIncrease ==
    \A i, j \in Idx(records) :
        (i < j /\ records[i].item_name = records[j].item_name)
        => DigitsVal(records[i].date.d) < DigitsVal(records[j].date.d)

AmountValue(k) ==
    IF k.s[1] = "-" THEN 0 - PlainValue(SelectSeq(k.s, IsDigit))
    ELSE PlainValue(SelectSeq(k.s, IsDigit))

\* LineItem r states what the row on this line states: its amount is the
\* amount at the end of the line, its date a date of the line, its description
\* a piece of the line
DerivedFrom(r, line) ==
    /\ Len(line) >= 6
    /\ line[Len(line)].kind = "amt"
    /\ r.amount = AmountValue(line[Len(line)])
    /\ \E j \in Idx(line) :
          /\ line[j].kind = "date"
          /\ r.date = DateStr(line[j].y, line[j].m, line[j].d, "/")
    /\ \E a, b \in Idx(line) : r.item_name = SubSeq(line, a, b)

\* the records are those of the primary strategy, for the lines read so far
PrimaryRecords ==
    \/ pcB = "lines" /\ lineNo >= 1
    \/ pcB = "done" /\ nPrimary >= 1

\* C24: in the primary strategy of Grammar B each line yields at most one
\* LineItem and the items are in the order of their lines: the LineItems map
\* one to one, in increasing order, to lines already read that state them.
C24_OnePerLineInOrder ==
    PrimaryRecords =>
        \E f \in [Idx(records) -> 1..(lineNo - 1)] :
            /\ \A i, j \in Idx(records) : i < j => f[i] < f[j]
            /\ \A i \in Idx(records) : DerivedFrom(records[i], Split(text)[f[i]])

\* two rows that both patterns match, with different descriptions and
\* amounts, gave two LineItems in the order of the rows
C24_Witness ==
    /\ pcB = "done"
    /\ Len(records) = 2
    /\ LET ls == Split(text)
       IN  /\ Len(ls) = 2
           /\ MatchFull(ls[1]).matched /\ MatchLoose(ls[1]).matched
           /\ MatchFull(ls[2]).matched /\ MatchLoose(ls[2]).matched
           /\ DerivedFrom(records[1], ls[1]) /\ ~DerivedFrom(records[1], ls[2])
           /\ DerivedFrom(records[2], ls[2]) /\ ~DerivedFrom(records[2], ls[1])

(***************************************************************************)
(* Claims about the LineItems of both grammars                             *)
(***************************************************************************)
\* the records are those of the fallback scans of Grammar B
FromFallback == pcB = "done" /\ nPrimary = 0

\* C14 as stated: every LineItem of either grammar, on every path, has a
\* positive quantity, a unit price that is not negative and an amount that is
\* not negative.
C14_NonNegative ==
    \A i \in 1..Len(records) :
        /\ records[i].quantity > 0
        /\ records[i].unit_price >= 0
        /\ records[i].amount >= 0

\* C14 amended: every LineItem has a positive quantity; a LineItem of Grammar
\* A has the fixed unit price and an amount that is not negative; a LineItem
\* of the fallback scans of Grammar B has a positive amount; every LineItem of
\* Grammar B has its amount as unit price, and in the primary strategy that
\* amount can be negative.
C14_SignsByPath ==
    \A i \in 1..Len(records) :
        LET r == records[i]
        IN  /\ r.quantity > 0
            /\ r.vendor = VendorA =>
                  /\ r.unit_price = UnitPrice
                  /\ r.amount >= 0
            /\ r.vendor = VendorB => r.unit_price = r.amount
            /\ (r.vendor = VendorB /\ FromFallback) => r.amount > 0

\* the primary strategy of Grammar B returned a credit next to a charge
C14_Witness ==
    /\ pcB = "done"
    /\ nPrimary = 2
    /\ records[1].amount > 0
    /\ records[2].amount < 0

\* the days of month m of year y
DaysIn(y, m) ==
    IF m \in {4, 6, 9, 11} THEN 30
    ELSE IF m # 2 THEN 31
    ELSE IF y % 4 = 0 /\ (y % 100 # 0 \/ y % 400 = 0) THEN 29
    ELSE 28

\* a date string YYYY-MM-DD that names a day of the calendar
IsIsoDate(d) ==
    /\ d.sep = "-"
    /\ Len(d.y) = 4 /\ Len(d.m) = 2 /\ Len(d.d) = 2
    /\ DigitsVal(d.m) \in 1..12
    /\ DigitsVal(d.d) \in 1..DaysIn(DigitsVal(d.y), DigitsVal(d.m))

\* C15 as stated: the date of every LineItem of either grammar is a valid
\* ISO-8601 calendar date string, YYYY-MM-DD with a month 01-12 and a day
\* that exists in that month.
C15_ValidIsoDate ==
    \A i \in 1..Len(records) : IsIsoDate(records[i].date)

\* C17: of documents parsed one after another, each gets the list its grammar
\* returns for that document alone, whatever was parsed before it: the list
\* and the dedup set of Grammar A start empty on every call.
C17_Stateless ==
    /\ pcA = "done" => records = parse_hirayama_invoice(text)
    /\ pcB = "done" => records = parse_french_fnb_invoice(text)

\* the second document holds the quantity the first one held, and it is
\* emitted again
C17_Witness ==
    /\ idx = 2
    /\ pcA = "done"
    /\ records # <<>>
    /\ all_invoices = records

(***************************************************************************)
(* Claims about Text Recovery and the Vendor Classifier                    *)
(***************************************************************************)
\* C4 as stated: when a call of extract_invoice_data that created its
\* temporary file returns, the file is gone, on every exit path.
C4_TempFileRemoved == (pcX = "ret" /\ tmp_created) => ~tmp_exists

\* the decision order of the specification: filename A, filename B, text A,
\* text B, ingredient names, Unknown
ClaimedClassify(name, t) ==
    IF "hirayama" \in FileKeywords(name) \/ "meat" \in FileKeywords(name)
    THEN "A"
    ELSE IF \/ "french" \in FileKeywords(name)
            \/ "fnb" \in FileKeywords(name)
            \/ "caviar" \in FileKeywords(name)
    THEN "B"
    ELSE IF TextHas(t, SubHirayama) THEN "A"
    ELSE IF TextHas(t, SubFrench) THEN "B"
    ELSE IF TextHas(t, SubWagyu) \/ TextHas(t, SubHire) THEN "A"
    ELSE IF TextHas(t, SubCaviar) \/ TextHas(t, SubKaviari) THEN "B"
    ELSE "none"

\* C5 as stated: the grammar a call hands its text to is the one the first
\* matching rule of the order filename A, filename B, text A, text B,
\* ingredient names, Unknown selects; so a file named with a Vendor B keyword
\* and no Vendor A keyword goes to Grammar B whatever its text.
C5_ClaimedOrder ==
    (pcX = "ret" /\ fault = "none" /\ ~Blank(text_content))
    => grammar = ClaimedClassify(inv, text_content)

\* C6: in a call whose text-layer extraction produced text that is not all
\* blanks, pages are never rasterized and recognition is never invoked.
C6_NoOcrWithTextLayer ==
    ~Blank(directText) => (~rasterized /\ ocrCalls = <<>>)

\* a call with OCR at hand returned text of the text layer
C6_Witness ==
    /\ pcX = "ret"
    /\ fault = "none"
    /\ OCR_AVAILABLE
    /\ ~Blank(directText)
    /\ invoice_data # <<>>

\* the per-page results, each followed by its line break
RECURSIVE OcrConcat(_)
OcrConcat(ts) ==
    IF ts = <<>> THEN <<>> ELSE Head(ts) \o <<NL>> \o OcrConcat(Tail(ts))

\* the call came back from text recovery after a blank text layer
NoTextLayer == pcX = "ret" /\ fault = "none" /\ Blank(directText)

LayerFault ==
    /\ fault = "none"
    /\ PDFPLUMBER_AVAILABLE
    /\ ~rasterized
    /\ pageNo <= nPages

\* C11 as stated: a call in which anything raised (reading, the temporary
\* file, text-layer extraction, OCR, classification, parsing) returns the
\* empty list.
C11_FaultReturnsEmpty ==
    (pcX = "ret" /\ (fault # "none" \/ ocrFault \/ LayerFault))
    => invoice_data = <<>>

\* C11 amended: no exception leaves extract_invoice_data; an exception of the
\* temporary file, of reading, of os.unlink or of the classifier stage goes to
\* the outer handler and the call returns the empty list.
C11_NeverPropagates ==
    /\ pcX \in {"loop", "end", "mktemp", "write", "seek", "open", "page",
                "ocr", "ocrpage", "finish", "ret"}
    /\ fault # "none" =>
          /\ pcX \in {"ret", "loop", "end"}
          /\ invoice_data = <<>>

\* the classifier stage raised, after text recovery and os.unlink
C11_Witness ==
    /\ pcX = "ret"
    /\ fault = "classify"
    /\ tmp_created /\ ~tmp_exists
    /\ invoice_data = <<>>

\* C12: a call whose recovered text is empty or all blanks after text-layer
\* extraction and OCR returns the empty list; the classifier is not evaluated
\* and no grammar gets the text.
C12_BlankReturnsEmpty ==
    (pcX = "ret" /\ Blank(text_content)) =>
        /\ invoice_data = <<>>
        /\ ~classified
        /\ grammar = "none"

\* both recovery steps ran to the last page and left blanks only
C12_Witness ==
    /\ pcX = "ret"
    /\ fault = "none"
    /\ PDFPLUMBER_AVAILABLE
    /\ pageNo = nPages + 1
    /\ Len(ocrTexts) = nPages
    /\ Blank(text_content)
    /\ text_content # <<>>

\* no rule of the classifier matches: no vendor keyword in the file name, none
\* of the six substrings in the text
NoRuleMatches ==
    /\ FileKeywords(inv) = {}
    /\ \A i \in 1..Len(text_content) : Substrings(text_content[i]) = {}

\* C13: a call that recovered text which is not blank and that no classifier
\* rule matches returns the empty list, hands the text to neither grammar and
\* raises nothing.
C13_UnknownReturnsEmpty ==
    (pcX = "ret" /\ classified /\ NoRuleMatches) =>
        /\ invoice_data = <<>>
        /\ grammar = "none"
        /\ fault = "none"

\* the classifier saw a text holding a quantity Grammar A would emit
C13_Witness ==
    /\ pcX = "ret"
    /\ classified
    /\ NoRuleMatches
    /\ parse_hirayama_invoice(text_content) # <<>>

(***************************************************************************)
(* Claims about the batch                                                  *)
(***************************************************************************)
Range(f) == { f[i] : i \in 1..Len(f) }

AllIndices == [i \in 1..nFiles |-> i]

\* C9 as stated: when the batch is over, every document has been passed to
\* extraction exactly once, in upload order.
C9_AllExtracted == pcX = "end" => calls = AllIndices

\* the loop has taken the first idx documents, each once and in order, and
\* passed each to extraction unless its inv.seek(0) raised
TakenInOrder ==
    /\ \A i, j \in 1..Len(calls) : i < j => calls[i] < calls[j]
    /\ Range(calls) \subseteq 1..idx
    /\ \A i \in 1..idx :
          \/ i \in Range(calls)
          \/ /\ mode = "preview"
             /\ \E w \in Range(warnings) : w.idx = i /\ w.msg = "seek"
    /\ mode = "save" => calls = [i \in 1..idx |-> i]
    /\ pcX = "end" => idx = nFiles

\* C9 amended: the loop takes every document exactly once in upload order
\* and passes it to extraction exactly once, except a document of the preview
\* loop whose inv.seek(0) raises, which gets a warning and is not extracted; a
\* failure on one document never keeps the loop from the documents after it,
\* and the batch always reaches its end.
C9_BatchIsolated == []TakenInOrder /\ <>(pcX = "end")

\* the first document failed with a warning and the second was extracted
C9_Witness ==
    /\ pcX = "end"
    /\ nFiles >= 2
    /\ \E w \in Range(warnings) : w.idx = 1
    /\ 2 \in Range(calls)

\* C10 as stated: a document whose recovery or parsing raised adds nothing to
\* the totals and, once the loop is done with it, has a warning with its
\* filename and the fault message.
C10_FaultWarned ==
    fault # "none" =>
        /\ invoice_data = <<>>
        /\ pcX \in {"loop", "end"} =>
             \E w \in Range(warnings) :
                 w.idx = idx /\ w.name = inv /\ w.msg = fault

====
